---- MODULE Spec2Model ----
(***************************************************************************)
(* A model of lib/png.py (pure Python PNG encoder and prototype decoder).  *)
(*                                                                         *)
(* Byte strings and array('B') objects are sequences of numbers 0..255.    *)
(* Python indexes from 0, TLA+ from 1: the helpers At and Slice below do   *)
(* the translation, so the offsets in the definitions are the Python ones. *)
(* 32-bit quantities are kept as their four big-endian bytes, so a CRC is  *)
(* compared the way it travels in the file.                                *)
(***************************************************************************)
EXTENDS Integers, Sequences, FiniteSets, TLC

VARIABLES
    pc,         \* position of the scenario: which call runs or has ended
    args,       \* the arguments of the Writer(...) call
    w,          \* the Writer object (NoWriter when none was constructed)
    err,        \* the exception that ended the last call ("" when none)
    pixels,     \* the array('B') handed to write_array / the decoder's array
    interlace,  \* the interlace argument of write_array
    lines,      \* the scanline generator: the scanlines not yet consumed
    data,       \* Writer.write: the working buffer `data`
    z,          \* Writer.write: the zlib compressor object
    outfile,    \* the bytes written to the output stream so far
    rd          \* what Reader.read / Reader.read_chunk returned

vars == <<pc, args, w, err, pixels, interlace, lines, data, z, outfile, rd>>

(***************************************************************************)
(* Python sequences                                                        *)
(***************************************************************************)
Min(a, b) == IF a < b THEN a ELSE b
Max(a, b) == IF a > b THEN a ELSE b

\* s[i] for 0 <= i < len(s)
At(s, i) == s[i + 1]

\* s[a:b] for 0 <= a; the stop is clamped to len(s) as Python does
Slice(s, a, b) ==
    LET lo == Min(a, Len(s))
        hi == Min(Max(b, lo), Len(s))
    IN  SubSeq(s, lo + 1, hi)

\* the indices of the extended slice [a:b:k] of a sequence of length n
SliceIndices(a, b, k, n) ==
    LET lo == Min(a, n)
        hi == Min(Max(b, lo), n)
        cnt == (hi - lo + k - 1) \div k
    IN  [j \in 1..cnt |-> lo + (j - 1) * k]

\* s[a:b:k]
StepSlice(s, a, b, k) ==
    LET idx == SliceIndices(a, b, k, Len(s))
    IN  [j \in 1..Len(idx) |-> At(s, idx[j])]

\* s[i] = v
SetAt(s, i, v) == [s EXCEPT ![i + 1] = v]

RECURSIVE Concat(_)
\* ''.join(list)
Concat(ss) == IF ss = <<>> THEN <<>> ELSE Head(ss) \o Concat(Tail(ss))

(***************************************************************************)
(* struct.pack / struct.unpack, big-endian                                 *)
(***************************************************************************)
\* struct.pack("!H", n): the low 16 bits of n (the struct module of the
\* Python this program was written for masks a number that does not fit)
PackH(n) == <<(n \div 256) % 256, n % 256>>

\* struct.pack("!I", n) for the (small) non-negative numbers of the model
PackI(n) == <<(n \div 16777216) % 256, (n \div 65536) % 256,
              (n \div 256) % 256, n % 256>>

\* struct.unpack("!I", b)[0]
UnpackI(b) == ((b[1] * 256 + b[2]) * 256 + b[3]) * 256 + b[4]

(***************************************************************************)
(* zlib.crc32: the CRC-32 of the PNG and zip formats, on 4-byte values     *)
(***************************************************************************)
\* bit k of the sum of a and b without carry
XorBit(a, b, k) == (((a \div k) + (b \div k)) % 2) * k

\* a ^ b for bytes, as a function of the two bytes
XorByte ==
    [a \in 0..255 |-> [b \in 0..255 |->
        ((XorBit(a, b, 1) + XorBit(a, b, 2)) + (XorBit(a, b, 4) + XorBit(a, b, 8)))
        + ((XorBit(a, b, 16) + XorBit(a, b, 32))
           + (XorBit(a, b, 64) + XorBit(a, b, 128)))]]

Xor8(a, b) == XorByte[a][b]

Xor32(a, b) ==
    <<Xor8(a[1], b[1]), Xor8(a[2], b[2]), Xor8(a[3], b[3]), Xor8(a[4], b[4])>>

\* the table of the byte-wise CRC-32 (reflected polynomial 0xEDB88320):
\* entry n+1 is n shifted through eight steps of the bit-wise algorithm
CrcTable ==
<<
    <<0, 0, 0, 0>>, <<119, 7, 48, 150>>, <<238, 14, 97, 44>>, <<153, 9, 81, 186>>,
    <<7, 109, 196, 25>>, <<112, 106, 244, 143>>, <<233, 99, 165, 53>>, <<158, 100, 149, 163>>,
    <<14, 219, 136, 50>>, <<121, 220, 184, 164>>, <<224, 213, 233, 30>>, <<151, 210, 217, 136>>,
    <<9, 182, 76, 43>>, <<126, 177, 124, 189>>, <<231, 184, 45, 7>>, <<144, 191, 29, 145>>,
    <<29, 183, 16, 100>>, <<106, 176, 32, 242>>, <<243, 185, 113, 72>>, <<132, 190, 65, 222>>,
    <<26, 218, 212, 125>>, <<109, 221, 228, 235>>, <<244, 212, 181, 81>>, <<131, 211, 133, 199>>,
    <<19, 108, 152, 86>>, <<100, 107, 168, 192>>, <<253, 98, 249, 122>>, <<138, 101, 201, 236>>,
    <<20, 1, 92, 79>>, <<99, 6, 108, 217>>, <<250, 15, 61, 99>>, <<141, 8, 13, 245>>,
    <<59, 110, 32, 200>>, <<76, 105, 16, 94>>, <<213, 96, 65, 228>>, <<162, 103, 113, 114>>,
    <<60, 3, 228, 209>>, <<75, 4, 212, 71>>, <<210, 13, 133, 253>>, <<165, 10, 181, 107>>,
    <<53, 181, 168, 250>>, <<66, 178, 152, 108>>, <<219, 187, 201, 214>>, <<172, 188, 249, 64>>,
    <<50, 216, 108, 227>>, <<69, 223, 92, 117>>, <<220, 214, 13, 207>>, <<171, 209, 61, 89>>,
    <<38, 217, 48, 172>>, <<81, 222, 0, 58>>, <<200, 215, 81, 128>>, <<191, 208, 97, 22>>,
    <<33, 180, 244, 181>>, <<86, 179, 196, 35>>, <<207, 186, 149, 153>>, <<184, 189, 165, 15>>,
    <<40, 2, 184, 158>>, <<95, 5, 136, 8>>, <<198, 12, 217, 178>>, <<177, 11, 233, 36>>,
    <<47, 111, 124, 135>>, <<88, 104, 76, 17>>, <<193, 97, 29, 171>>, <<182, 102, 45, 61>>,
    <<118, 220, 65, 144>>, <<1, 219, 113, 6>>, <<152, 210, 32, 188>>, <<239, 213, 16, 42>>,
    <<113, 177, 133, 137>>, <<6, 182, 181, 31>>, <<159, 191, 228, 165>>, <<232, 184, 212, 51>>,
    <<120, 7, 201, 162>>, <<15, 0, 249, 52>>, <<150, 9, 168, 142>>, <<225, 14, 152, 24>>,
    <<127, 106, 13, 187>>, <<8, 109, 61, 45>>, <<145, 100, 108, 151>>, <<230, 99, 92, 1>>,
    <<107, 107, 81, 244>>, <<28, 108, 97, 98>>, <<133, 101, 48, 216>>, <<242, 98, 0, 78>>,
    <<108, 6, 149, 237>>, <<27, 1, 165, 123>>, <<130, 8, 244, 193>>, <<245, 15, 196, 87>>,
    <<101, 176, 217, 198>>, <<18, 183, 233, 80>>, <<139, 190, 184, 234>>, <<252, 185, 136, 124>>,
    <<98, 221, 29, 223>>, <<21, 218, 45, 73>>, <<140, 211, 124, 243>>, <<251, 212, 76, 101>>,
    <<77, 178, 97, 88>>, <<58, 181, 81, 206>>, <<163, 188, 0, 116>>, <<212, 187, 48, 226>>,
    <<74, 223, 165, 65>>, <<61, 216, 149, 215>>, <<164, 209, 196, 109>>, <<211, 214, 244, 251>>,
    <<67, 105, 233, 106>>, <<52, 110, 217, 252>>, <<173, 103, 136, 70>>, <<218, 96, 184, 208>>,
    <<68, 4, 45, 115>>, <<51, 3, 29, 229>>, <<170, 10, 76, 95>>, <<221, 13, 124, 201>>,
    <<80, 5, 113, 60>>, <<39, 2, 65, 170>>, <<190, 11, 16, 16>>, <<201, 12, 32, 134>>,
    <<87, 104, 181, 37>>, <<32, 111, 133, 179>>, <<185, 102, 212, 9>>, <<206, 97, 228, 159>>,
    <<94, 222, 249, 14>>, <<41, 217, 201, 152>>, <<176, 208, 152, 34>>, <<199, 215, 168, 180>>,
    <<89, 179, 61, 23>>, <<46, 180, 13, 129>>, <<183, 189, 92, 59>>, <<192, 186, 108, 173>>,
    <<237, 184, 131, 32>>, <<154, 191, 179, 182>>, <<3, 182, 226, 12>>, <<116, 177, 210, 154>>,
    <<234, 213, 71, 57>>, <<157, 210, 119, 175>>, <<4, 219, 38, 21>>, <<115, 220, 22, 131>>,
    <<227, 99, 11, 18>>, <<148, 100, 59, 132>>, <<13, 109, 106, 62>>, <<122, 106, 90, 168>>,
    <<228, 14, 207, 11>>, <<147, 9, 255, 157>>, <<10, 0, 174, 39>>, <<125, 7, 158, 177>>,
    <<240, 15, 147, 68>>, <<135, 8, 163, 210>>, <<30, 1, 242, 104>>, <<105, 6, 194, 254>>,
    <<247, 98, 87, 93>>, <<128, 101, 103, 203>>, <<25, 108, 54, 113>>, <<110, 107, 6, 231>>,
    <<254, 212, 27, 118>>, <<137, 211, 43, 224>>, <<16, 218, 122, 90>>, <<103, 221, 74, 204>>,
    <<249, 185, 223, 111>>, <<142, 190, 239, 249>>, <<23, 183, 190, 67>>, <<96, 176, 142, 213>>,
    <<214, 214, 163, 232>>, <<161, 209, 147, 126>>, <<56, 216, 194, 196>>, <<79, 223, 242, 82>>,
    <<209, 187, 103, 241>>, <<166, 188, 87, 103>>, <<63, 181, 6, 221>>, <<72, 178, 54, 75>>,
    <<216, 13, 43, 218>>, <<175, 10, 27, 76>>, <<54, 3, 74, 246>>, <<65, 4, 122, 96>>,
    <<223, 96, 239, 195>>, <<168, 103, 223, 85>>, <<49, 110, 142, 239>>, <<70, 105, 190, 121>>,
    <<203, 97, 179, 140>>, <<188, 102, 131, 26>>, <<37, 111, 210, 160>>, <<82, 104, 226, 54>>,
    <<204, 12, 119, 149>>, <<187, 11, 71, 3>>, <<34, 2, 22, 185>>, <<85, 5, 38, 47>>,
    <<197, 186, 59, 190>>, <<178, 189, 11, 40>>, <<43, 180, 90, 146>>, <<92, 179, 106, 4>>,
    <<194, 215, 255, 167>>, <<181, 208, 207, 49>>, <<44, 217, 158, 139>>, <<91, 222, 174, 29>>,
    <<155, 100, 194, 176>>, <<236, 99, 242, 38>>, <<117, 106, 163, 156>>, <<2, 109, 147, 10>>,
    <<156, 9, 6, 169>>, <<235, 14, 54, 63>>, <<114, 7, 103, 133>>, <<5, 0, 87, 19>>,
    <<149, 191, 74, 130>>, <<226, 184, 122, 20>>, <<123, 177, 43, 174>>, <<12, 182, 27, 56>>,
    <<146, 210, 142, 155>>, <<229, 213, 190, 13>>, <<124, 220, 239, 183>>, <<11, 219, 223, 33>>,
    <<134, 211, 210, 212>>, <<241, 212, 226, 66>>, <<104, 221, 179, 248>>, <<31, 218, 131, 110>>,
    <<129, 190, 22, 205>>, <<246, 185, 38, 91>>, <<111, 176, 119, 225>>, <<24, 183, 71, 119>>,
    <<136, 8, 90, 230>>, <<255, 15, 106, 112>>, <<102, 6, 59, 202>>, <<17, 1, 11, 92>>,
    <<143, 101, 158, 255>>, <<248, 98, 174, 105>>, <<97, 107, 255, 211>>, <<22, 108, 207, 69>>,
    <<160, 10, 226, 120>>, <<215, 13, 210, 238>>, <<78, 4, 131, 84>>, <<57, 3, 179, 194>>,
    <<167, 103, 38, 97>>, <<208, 96, 22, 247>>, <<73, 105, 71, 77>>, <<62, 110, 119, 219>>,
    <<174, 209, 106, 74>>, <<217, 214, 90, 220>>, <<64, 223, 11, 102>>, <<55, 216, 59, 240>>,
    <<169, 188, 174, 83>>, <<222, 187, 158, 197>>, <<71, 178, 207, 127>>, <<48, 181, 255, 233>>,
    <<189, 189, 242, 28>>, <<202, 186, 194, 138>>, <<83, 179, 147, 48>>, <<36, 180, 163, 166>>,
    <<186, 208, 54, 5>>, <<205, 215, 6, 147>>, <<84, 222, 87, 41>>, <<35, 217, 103, 191>>,
    <<179, 102, 122, 46>>, <<196, 97, 74, 184>>, <<93, 104, 27, 2>>, <<42, 111, 43, 148>>,
    <<180, 11, 190, 55>>, <<195, 12, 142, 161>>, <<90, 5, 223, 27>>, <<45, 2, 239, 141>> >>

AllOnes == <<255, 255, 255, 255>>

\* the shift register after one more byte
CrcStep(c, b) == Xor32(CrcTable[Xor8(c[4], b) + 1], <<0, c[1], c[2], c[3]>>)

RECURSIVE CrcRange(_, _, _, _)
\* the shift register after the bytes s[lo..hi], taken in order.  The range
\* is halved, and the register after the first half looked at before the
\* second half starts, so that the evaluation stays shallow.
CrcRange(c, s, lo, hi) ==
    IF lo > hi THEN c
    ELSE IF lo = hi THEN CrcStep(c, s[lo])
    ELSE LET mid  == (lo + hi) \div 2
             left == CrcRange(c, s, lo, mid)
         IN  IF Len(left) = 4 THEN CrcRange(left, s, mid + 1, hi) ELSE left

\* the shift register after the bytes of s
CrcUpdate(c, s) == CrcRange(c, s, 1, Len(s))

\* zlib.crc32(s, start): all-ones initial register and output inversion.
\* The start value is an argument, so it is there before the call begins.
crc32(s, start) ==
    IF Len(start) = 4
    THEN LET c == Xor32(start, AllOnes)
         IN  IF Len(c) = 4 THEN Xor32(CrcUpdate(c, s), AllOnes) ELSE c
    ELSE start

\* zlib.crc32(s)
crc32_0(s) == crc32(s, <<0, 0, 0, 0>>)

\* the chunk tags of the program, as their four bytes
TagIHDR == <<73, 72, 68, 82>>
TagtRNS == <<116, 82, 78, 83>>
TagbKGD == <<98, 75, 71, 68>>
TaggAMA == <<103, 65, 77, 65>>
TagIDAT == <<73, 68, 65, 84>>
TagIEND == <<73, 69, 78, 68>>

(***************************************************************************)
(* Chunk framing: Writer.write_chunk and Reader.read_chunk                 *)
(***************************************************************************)
\* the eight bytes of the file signature
Signature == <<137, 80, 78, 71, 13, 10, 26, 10>>

\* the checksum write_chunk computes: crc32(data, crc32(tag))
WriterChecksum(tag, payload) == crc32(payload, crc32_0(tag))

\* the bytes write_chunk writes: length, tag, payload, checksum.  The
\* checksum is packed as its two's complement bytes.
write_chunk(tag, payload) ==
    PackI(Len(payload)) \o tag \o payload \o WriterChecksum(tag, payload)

\* the checksum read_chunk recomputes
ReaderVerify_tagOnly(tag, payload) == crc32_0(tag)

ReaderVerify(tag, payload) == crc32(payload, crc32_0(tag))

\* the length field as infile.read(n) takes it: read returns at most the
\* avail bytes that are left, and a length of 2^31 or more exceeds them
ReadLen(b, avail) == IF b[1] >= 128 THEN avail ELSE UnpackI(b)

\* Reader.read_chunk on the unread bytes of the stream: the exception
\* raised ("" when none), the tag and payload returned, the bytes left
read_chunk(infile) ==
    LET head     == Slice(infile, 0, 8)
        n        == ReadLen(Slice(head, 0, 4), Len(infile))
        tag      == Slice(head, 4, 8)
        payload  == Slice(infile, 8, 8 + n)
        after    == 8 + Len(payload)
        checksum == Slice(infile, after, after + 4)
    IN  IF Len(head) < 8 \/ Len(checksum) < 4
        THEN [err |-> "struct.error", tag |-> <<>>, data |-> <<>>, rest |-> <<>>]
        ELSE IF checksum # ReaderVerify(tag, payload)
        THEN [err |-> "ValueError: checksum error", tag |-> <<>>, data |-> <<>>,
              rest |-> <<>>]
        ELSE [err |-> "", tag |-> tag, data |-> payload,
              rest |-> Slice(infile, after + 4, Len(infile))]

(***************************************************************************)
(* zlib.compressobj / zlib.decompress.  The library is outside the         *)
(* repository; what the program relies on is modelled: a stream header on  *)
(* the first call that produces output, input held back inside the         *)
(* compressor until ZWindow bytes are pending (so compress() may return    *)
(* the empty string), flush() draining everything and appending a check    *)
(* value, and decompress() undoing exactly that on the whole stream.       *)
(* Data travels in length-prefixed blocks, so the compressed stream is     *)
(* never the input itself.                                                 *)
(***************************************************************************)
ZWindow == 6

ZHeader == <<120, 156>>

RECURSIVE SumRange(_, _, _)
SumRange(s, lo, hi) ==
    IF lo > hi THEN 0
    ELSE IF lo = hi THEN s[lo]
    ELSE SumRange(s, lo, (lo + hi) \div 2) + SumRange(s, (lo + hi) \div 2 + 1, hi)

\* the sum of the bytes of s
Sum(s) == SumRange(s, 1, Len(s))

ZCheck(s) == <<Sum(s) % 251>>

RECURSIVE ZBlocks(_, _)
\* s as blocks <<final, length>> \o bytes of at most 255 bytes each
ZBlocks(s, final) ==
    IF Len(s) <= 255 THEN <<final, Len(s)>> \o s
    ELSE <<0, 255>> \o Slice(s, 0, 255) \o ZBlocks(Slice(s, 255, Len(s)), final)

\* zlib.compressobj()
compressobj == [started |-> FALSE, pending |-> <<>>, total |-> 0]

\* compressor.compress(s): the bytes returned and the compressor afterwards
compress(zs, s) ==
    LET hdr  == IF zs.started THEN <<>> ELSE ZHeader
        pend == zs.pending \o s
    IN  IF Len(pend) >= ZWindow
        THEN [out |-> hdr \o ZBlocks(pend, 0),
              z   |-> [started |-> TRUE, pending |-> <<>>,
                       total |-> (zs.total + Sum(s)) % 251]]
        ELSE [out |-> hdr,
              z   |-> [started |-> TRUE, pending |-> pend,
                       total |-> (zs.total + Sum(s)) % 251]]

\* compressor.flush()
flush(zs) ==
    (IF zs.started THEN <<>> ELSE ZHeader) \o ZBlocks(zs.pending, 1) \o <<zs.total>>

RECURSIVE Inflate(_, _)
Inflate(s, acc) ==
    IF Len(s) < 2 \/ Len(s) < 2 + s[2] THEN [err |-> "zlib.error", out |-> <<>>]
    ELSE LET body == Slice(s, 2, 2 + s[2])
             rest == Slice(s, 2 + s[2], Len(s))
         IN  IF s[1] = 1
             THEN IF rest = ZCheck(acc \o body)
                  THEN [err |-> "", out |-> acc \o body]
                  ELSE [err |-> "zlib.error", out |-> <<>>]
             ELSE Inflate(rest, acc \o body)

\* zlib.decompress(s)
decompress(s) ==
    IF Slice(s, 0, 2) # ZHeader THEN [err |-> "zlib.error", out |-> <<>>]
    ELSE Inflate(Slice(s, 2, Len(s)), <<>>)

(***************************************************************************)
(* Writer.__init__                                                         *)
(*                                                                         *)
(* A transparent/background argument is a Python value: None, an int, or a *)
(* tuple.  v holds the components and ints says whether every component    *)
(* has type int.  gamma is None or a float, kept in millionths.  The       *)
(* compression argument only selects the zlib level and is left out.       *)
(***************************************************************************)
PyNone == [t |-> "none", v |-> <<>>, ints |-> TRUE]
PyInt(n) == [t |-> "int", v |-> <<n>>, ints |-> TRUE]
PyFloat(n) == [t |-> "float", v |-> <<n>>, ints |-> FALSE]
PyTuple(s) == [t |-> "tuple", v |-> s, ints |-> TRUE]
PyFloatTuple(s) == [t |-> "tuple", v |-> s, ints |-> FALSE]

NoGamma == [set |-> FALSE, micro |-> 0]
Gamma(m) == [set |-> TRUE, micro |-> m]

\* line 130
BadSize(width, height) == width <= 0 \/ height <= 0

\* line 133
AlphaWithTransparent(has_alpha, transparent) == has_alpha /\ transparent # PyNone

\* line 137
BadBytesPerSample_3(bytes_per_sample) ==
    bytes_per_sample < 1 \/ bytes_per_sample > 3

BadBytesPerSample(bytes_per_sample) == bytes_per_sample < 1 \/ bytes_per_sample > 2

\* lines 140-151 and 153-164: the check made of one colour argument; the
\* exception it raises, "" when it passes.  len() of a number is a TypeError.
ColourCheck(greyscale, colour) ==
    IF colour = PyNone THEN ""
    ELSE IF greyscale
    THEN IF colour.t # "int" THEN "ValueError" ELSE ""
    ELSE IF colour.t # "tuple" THEN "TypeError"
    ELSE IF ~(Len(colour.v) = 3 /\ colour.ints) THEN "ValueError"
    ELSE ""

\* the exception Writer(...) raises, "" when it returns an object
init_error(a) ==
    IF BadSize(a.width, a.height) THEN "ValueError"
    ELSE IF AlphaWithTransparent(a.has_alpha, a.transparent) THEN "ValueError"
    ELSE IF BadBytesPerSample(a.bytes_per_sample) THEN "ValueError"
    ELSE IF ColourCheck(a.greyscale, a.transparent) # ""
    THEN ColourCheck(a.greyscale, a.transparent)
    ELSE ColourCheck(a.greyscale, a.background)

\* lines 177-192: color_depth, color_type, psize
color_depth(greyscale) == IF greyscale THEN 1 ELSE 3

color_type_rgb3(greyscale, has_alpha) ==
    IF greyscale THEN (IF has_alpha THEN 4 ELSE 0)
    ELSE (IF has_alpha THEN 6 ELSE 3)

color_type(greyscale, has_alpha) ==
    IF greyscale THEN (IF has_alpha THEN 4 ELSE 0)
    ELSE (IF has_alpha THEN 6 ELSE 2)

psize(greyscale, has_alpha, bytes_per_sample) ==
    IF greyscale THEN (IF has_alpha THEN bytes_per_sample * 2 ELSE bytes_per_sample)
    ELSE (IF has_alpha THEN bytes_per_sample * 4 ELSE bytes_per_sample * 3)

\* the object __init__ leaves behind
Writer_init(a) ==
    [width |-> a.width, height |-> a.height,
     transparent |-> a.transparent, background |-> a.background,
     gamma |-> a.gamma, greyscale |-> a.greyscale, has_alpha |-> a.has_alpha,
     bytes_per_sample |-> a.bytes_per_sample, chunk_limit |-> a.chunk_limit,
     color_depth |-> color_depth(a.greyscale),
     color_type |-> color_type(a.greyscale, a.has_alpha),
     psize |-> psize(a.greyscale, a.has_alpha, a.bytes_per_sample)]

\* no Writer object
NoWriter ==
    [width |-> 0, height |-> 0, transparent |-> PyNone, background |-> PyNone,
     gamma |-> NoGamma, greyscale |-> FALSE, has_alpha |-> FALSE,
     bytes_per_sample |-> 0, chunk_limit |-> 0, color_depth |-> 0,
     color_type |-> 0, psize |-> 0]

NoArgs ==
    [width |-> 0, height |-> 0, transparent |-> PyNone, background |-> PyNone,
     gamma |-> NoGamma, greyscale |-> FALSE, has_alpha |-> FALSE,
     bytes_per_sample |-> 0, chunk_limit |-> 0]

(***************************************************************************)
(* Scanline generators.  A generator is the sequence of what it will       *)
(* yield: records with the row, or with the exception raised in its place. *)
(***************************************************************************)
Yield(row) == [err |-> "", row |-> row]
Raise(e) == [err |-> e, row |-> <<>>]

\* Writer.array_scanlines: start and stop of row y
RowStart_skew(y, row_bytes) == y * (row_bytes + 1)

RowStart(y, row_bytes) == y * row_bytes

array_scanlines(wr, px) ==
    LET row_bytes == wr.width * wr.psize
    IN  [k \in 1..wr.height |->
            Yield(Slice(px, RowStart(k - 1, row_bytes),
                        RowStart(k - 1, row_bytes) + row_bytes))]

\* Writer.file_scanlines on a file of the bytes ppm: fromfile raises
\* EOFError when the file has less than a row left
file_scanlines(wr, ppm) ==
    LET row_bytes == wr.psize * wr.width
    IN  [k \in 1..wr.height |->
            IF k * row_bytes <= Len(ppm)
            THEN Yield(Slice(ppm, (k - 1) * row_bytes, k * row_bytes))
            ELSE Raise("EOFError")]

\* the pass table of array_scanlines_interlace: xstart, ystart, xstep, ystep
adam7 == << <<0, 0, 8, 8>>, <<4, 0, 8, 8>>, <<0, 4, 4, 8>>, <<2, 0, 4, 4>>,
            <<0, 2, 2, 4>>, <<1, 0, 2, 2>>, <<0, 1, 1, 2>> >>

\* len(range(start, stop, step))
RangeLen(start, stop, step) ==
    IF stop > start THEN (stop - start + step - 1) \div step ELSE 0

\* line 393: psize * ((width - xstart + xstep - 1) / xstep)
row_len_floor(ps, width, xstart, xstep) == ps * ((width - xstart) \div xstep)

row_len(ps, width, xstart, xstep) == ps * ((width - xstart + xstep - 1) \div xstep)

\* line 385: the rows of a pass that starts right of the image are skipped
PassSkipped(width, xstart) == xstart >= width

\* lines 400-402: for i in range(psize): row[i:row_len:psize] =
\* pixels[offset+i:end_offset:skip].  An extended slice takes only a source
\* of its own size (ValueError otherwise); assignment i sets the elements
\* i, i + psize, ... below row_len, so element n is set by assignment
\* n mod psize, from the (n div psize)-th element of its source.
Deinterleave(row, ps, rlen, px, offset, end_offset, skip) ==
    IF \E i \in 0..(ps - 1) :
          Len(SliceIndices(i, rlen, ps, Len(row)))
              # Len(SliceIndices(offset + i, end_offset, skip, Len(px)))
    THEN Raise("ValueError")
    ELSE Yield([n \in 1..Len(row) |->
                  IF n - 1 < rlen
                  THEN At(px, offset + ((n - 1) % ps) + ((n - 1) \div ps) * skip)
                  ELSE row[n]])

\* lines 387-403: the scanline of row y in the pass (xstart, xstep)
interlace_row(wr, px, y, xstart, xstep) ==
    LET row_bytes == wr.psize * wr.width
        rlen      == row_len(wr.psize, wr.width, xstart, xstep)
    IN  IF xstep = 1
        THEN Yield(Slice(px, y * row_bytes, y * row_bytes + row_bytes))
        ELSE Deinterleave(Slice(px, 0, rlen), wr.psize, rlen, px,
                          y * row_bytes + xstart * wr.psize,
                          (y + 1) * row_bytes, wr.psize * xstep)

\* lines 384-403 for one pass
interlace_pass(wr, px, pass) ==
    LET xstart == pass[1]
        ystart == pass[2]
        xstep  == pass[3]
        ystep  == pass[4]
    IN  IF PassSkipped(wr.width, xstart) THEN <<>>
        ELSE [k \in 1..RangeLen(ystart, wr.height, ystep) |->
                interlace_row(wr, px, ystart + (k - 1) * ystep, xstart, xstep)]

\* Writer.array_scanlines_interlace
array_scanlines_interlace(wr, px) ==
    Concat([p \in 1..Len(adam7) |-> interlace_pass(wr, px, adam7[p])])

(***************************************************************************)
(* Writer.write, one definition per write to the output stream             *)
(***************************************************************************)
\* lines 214-221: the IHDR payload
IHDRPayload(wr, interlaced) ==
    PackI(wr.width) \o PackI(wr.height)
        \o <<wr.bytes_per_sample * 8, wr.color_type, 0, 0,
             IF interlaced THEN 1 ELSE 0>>

\* struct.pack("!1H", *colour) / struct.pack("!3H", *colour): the exception
\* raised, or the bytes.  `*colour` needs a sequence, and pack as many
\* arguments as the format has items.
ColourPayload(greyscale, colour) ==
    LET n == IF greyscale THEN 1 ELSE 3
    IN  IF colour.t # "tuple" THEN [err |-> "TypeError", bytes |-> <<>>]
        ELSE IF Len(colour.v) # n \/ ~colour.ints
        THEN [err |-> "struct.error", bytes |-> <<>>]
        ELSE [err |-> "", bytes |-> Concat([k \in 1..n |-> PackH(colour.v[k])])]

\* lines 224 and 233: `is not None`
ColourSet_never(colour) == FALSE

ColourSet(colour) == colour # PyNone

\* line 244: int(gamma * 100000), gamma in millionths
GammaValue(micro) == IF micro >= 0 THEN micro \div 10 ELSE -((-micro) \div 10)

\* lines 254-255
LoopData(buf, row) == buf \o <<0>> \o row

\* line 256
OverLimit(buf, chunk_limit) == Len(buf) > chunk_limit

\* line 261: data = array('B') after a compress call in the loop
DataAfterCompress_kept(buf) == buf

DataAfterCompress(buf) == <<>>

\* lines 258 and 267: an IDAT chunk is written only for a non-empty string
IdatWanted(compressed, flushed) == Len(compressed) > 0 \/ Len(flushed) > 0

(***************************************************************************)
(* Reader: the reconstruction methods.  They work in place on the array    *)
(* `pixels`, which at the time of the call ends with the row being         *)
(* reconstructed.  A Python index may be negative: it then counts from the *)
(* end of the array, and is an IndexError only below -len.                 *)
(***************************************************************************)
IndexOK(s, i) == i >= -Len(s) /\ i < Len(s)

\* s[i], negative i included
PyAt(s, i) == IF i < 0 THEN s[Len(s) + i + 1] ELSE s[i + 1]

Ok(px) == [err |-> "", px |-> px]
IndexError == [err |-> "IndexError", px |-> <<>>]

Abs(n) == IF n < 0 THEN -n ELSE n

RECURSIVE SubLoop(_, _, _, _, _)
SubLoop(px, offset, a_offset, index, row_bytes) ==
    IF index >= row_bytes THEN Ok(px)
    ELSE IF ~IndexOK(px, offset) \/ ~IndexOK(px, a_offset) THEN IndexError
    ELSE LET x == PyAt(px, offset)
             a == PyAt(px, a_offset)
         IN  SubLoop(SetAt(px, offset, (x + a) % 256),
                     offset + 1, a_offset + 1, index + 1, row_bytes)

\* Reader._reconstruct_sub
reconstruct_sub(px, offset, row_bytes, ps) ==
    SubLoop(px, offset + ps, offset, ps, row_bytes)

RECURSIVE UpLoop(_, _, _, _, _)
UpLoop(px, offset, b_offset, index, row_bytes) ==
    IF index >= row_bytes THEN Ok(px)
    ELSE IF ~IndexOK(px, offset) \/ ~IndexOK(px, b_offset) THEN IndexError
    ELSE LET x == PyAt(px, offset)
             b == PyAt(px, b_offset)
         IN  UpLoop(SetAt(px, offset, (x + b) % 256),
                    offset + 1, b_offset + 1, index + 1, row_bytes)

\* Reader._reconstruct_up
reconstruct_up(px, offset, row_bytes, ps) ==
    UpLoop(px, offset, offset - row_bytes, 0, row_bytes)

RECURSIVE AverageLoop(_, _, _, _, _, _)
AverageLoop(px, offset, b_offset, index, row_bytes, ps) ==
    IF index >= row_bytes THEN Ok(px)
    ELSE IF ~IndexOK(px, offset) THEN IndexError
    ELSE IF index >= ps /\ ~IndexOK(px, offset - ps) THEN IndexError
    ELSE IF b_offset >= 0 /\ ~IndexOK(px, b_offset) THEN IndexError
    ELSE LET x == PyAt(px, offset)
             a == IF index < ps THEN 0 ELSE PyAt(px, offset - ps)
             b == IF b_offset < 0 THEN 0 ELSE PyAt(px, b_offset)
         IN  AverageLoop(SetAt(px, offset, (x + (a + b) \div 2) % 256),
                         offset + 1, b_offset + 1, index + 1, row_bytes, ps)

\* Reader._reconstruct_average
reconstruct_average(px, offset, row_bytes, ps) ==
    AverageLoop(px, offset, offset - row_bytes, 0, row_bytes, ps)

\* lines 486-495: the Paeth predictor
PaethPredictor(a, b, c) ==
    LET p  == a + b - c
        pa == Abs(p - a)
        pb == Abs(p - b)
        pc0 == Abs(p - c)
    IN  IF pa <= pb /\ pa <= pc0 THEN a
        ELSE IF pb <= pc0 THEN b
        ELSE c

RECURSIVE PaethLoop(_, _, _, _, _, _, _, _)
PaethLoop(px, offset, a_offset, b_offset, c_offset, index, row_bytes, ps) ==
    IF index >= row_bytes THEN Ok(px)
    ELSE IF ~IndexOK(px, offset) \/ ~IndexOK(px, b_offset) THEN IndexError
    ELSE IF index >= ps /\ (~IndexOK(px, a_offset) \/ ~IndexOK(px, c_offset))
    THEN IndexError
    ELSE LET x == PyAt(px, offset)
             a == IF index < ps THEN 0 ELSE PyAt(px, a_offset)
             b == PyAt(px, b_offset)
             c == IF index < ps THEN 0 ELSE PyAt(px, c_offset)
         IN  PaethLoop(SetAt(px, offset, (x + PaethPredictor(a, b, c)) % 256),
                       offset + 1, a_offset + 1, b_offset + 1, c_offset + 1,
                       index + 1, row_bytes, ps)

\* Reader._reconstruct_paeth
reconstruct_paeth(px, offset, row_bytes, ps) ==
    PaethLoop(px, offset, offset - ps, offset - row_bytes,
              offset - row_bytes - ps, 0, row_bytes, ps)

(***************************************************************************)
(* Reader.read                                                             *)
(***************************************************************************)
ReadFailed(e) == [err |-> e, width |-> 0, height |-> 0, pixels |-> <<>>]
NoRead == ReadFailed("")

\* lines 540-547: read calls the reconstruction functions by their bare
\* names, which are methods of Reader and no names of the module: a
\* filter type 1..4 ends the call with a NameError.  Type 0 and the types
\* above 4 leave the row as stored.
filter_dispatch(px, filter_type, y, row_bytes) ==
    IF filter_type \in 1..4 THEN [err |-> "NameError", px |-> <<>>]
    ELSE Ok(px)

RECURSIVE ReadRows(_, _, _, _, _, _)
\* lines 535-548: the loop over the rows
ReadRows(scanlines, px, y, height, offset, row_bytes) ==
    IF y >= height THEN Ok(px)
    ELSE IF offset >= Len(scanlines) THEN IndexError
    ELSE LET filter_type == At(scanlines, offset)
             stored == Slice(scanlines, offset + 1, offset + 1 + row_bytes)
             r == filter_dispatch(px \o stored, filter_type, y, row_bytes)
         IN  IF r.err # "" THEN r
             ELSE ReadRows(scanlines, r.px, y + 1, height,
                           offset + 1 + row_bytes, row_bytes)

\* lines 516-523: the header values read accepts
HeaderAccepted_depthOnly(payload) == payload[9] = 8

HeaderAccepted(payload) ==
    /\ payload[9] = 8
    /\ payload[10] = 2
    /\ payload[11] = 0
    /\ payload[12] = 0
    /\ payload[13] = 0

RECURSIVE ReadChunks(_, _, _)
\* lines 512-528: the loop over the chunks; hdr holds width and height once
\* an IHDR chunk was seen
ReadChunks(infile, hdr, compressed) ==
    LET c == read_chunk(infile)
    IN  IF c.err # "" THEN [err |-> c.err, hdr |-> hdr, compressed |-> <<>>]
        ELSE IF c.tag = TagIHDR
        THEN IF Len(c.data) # 13
             THEN [err |-> "struct.error", hdr |-> hdr, compressed |-> <<>>]
             ELSE IF ~HeaderAccepted(c.data)
             THEN [err |-> "AssertionError", hdr |-> hdr, compressed |-> <<>>]
             ELSE ReadChunks(c.rest,
                             [seen |-> TRUE,
                              width |-> UnpackI(Slice(c.data, 0, 4)),
                              height |-> UnpackI(Slice(c.data, 4, 8))],
                             compressed)
        ELSE IF c.tag = TagIDAT
        THEN ReadChunks(c.rest, hdr, compressed \o c.data)
        ELSE IF c.tag = TagIEND
        THEN [err |-> "", hdr |-> hdr, compressed |-> compressed]
        ELSE ReadChunks(c.rest, hdr, compressed)

\* Reader.read(infile)
Reader_read(infile) ==
    IF Slice(infile, 0, 8) # Signature THEN ReadFailed("AssertionError")
    ELSE LET cs == ReadChunks(Slice(infile, 8, Len(infile)),
                              [seen |-> FALSE, width |-> 0, height |-> 0], <<>>)
             sl == decompress(cs.compressed)
             rows == ReadRows(sl.out, <<>>, 0, cs.hdr.height, 0, 3 * cs.hdr.width)
         IN  IF cs.err # "" THEN ReadFailed(cs.err)
             ELSE IF sl.err # "" THEN ReadFailed(sl.err)
             ELSE IF ~cs.hdr.seen THEN ReadFailed("NameError")
             ELSE IF rows.err # "" THEN ReadFailed(rows.err)
             ELSE [err |-> "", width |-> cs.hdr.width, height |-> cs.hdr.height,
                   pixels |-> rows.px]

(***************************************************************************)
(* The encoder scenario: Writer(...), writer.write_array(outfile, pixels,  *)
(* interlace), then Reader().read on what was written.  Writer.write is    *)
(* taken one write to the output stream at a time, in the order of its     *)
(* statements, so that the stream can be looked at between two writes.     *)
(***************************************************************************)
MaxWidth == 2
MaxHeight == 2
SmallChunkLimit == 1
DefaultChunkLimit == 1048576

Booleans == {TRUE, FALSE}

TransparentInputs ==
    {PyNone, PyInt(5), PyTuple(<<1, 2, 3>>), PyTuple(<<70000, 0, 300>>)}
BackgroundInputs == {PyNone, PyInt(9), PyTuple(<<4, 5, 255>>)}
\* no gamma, gamma 1.0, gamma 0.454546
GammaInputs == {NoGamma, Gamma(1000000), Gamma(454546)}

WriterInputs ==
    [width : 1..MaxWidth, height : 1..MaxHeight,
     transparent : TransparentInputs, background : BackgroundInputs,
     gamma : GammaInputs, greyscale : Booleans, has_alpha : Booleans,
     bytes_per_sample : {1, 2},
     chunk_limit : {SmallChunkLimit, DefaultChunkLimit}]

\* a pixel buffer of n bytes, all different as long as n <= 256
TestPixels(n, seed) == [i \in 1..n |-> (seed + 37 * (i - 1)) % 256]

PixelSeeds == {0, 201}

Init ==
    /\ pc = "start"
    /\ args = NoArgs
    /\ w = NoWriter
    /\ err = ""
    /\ pixels = <<>>
    /\ interlace = FALSE
    /\ lines = <<>>
    /\ data = <<>>
    /\ z = compressobj
    /\ outfile = <<>>
    /\ rd = NoRead

\* Writer(**a) for one of the argument records of S
Construct(S) ==
    /\ pc = "start"
    /\ \E a \in S :
        /\ args' = a
        /\ IF init_error(a) = ""
           THEN /\ w' = Writer_init(a)
                /\ pc' = "ready"
                /\ err' = ""
           ELSE /\ w' = NoWriter
                /\ pc' = "init_failed"
                /\ err' = init_error(a)
    /\ UNCHANGED <<pixels, interlace, lines, data, z, outfile, rd>>

\* the exception ends Writer.write
Fail_finally(e) ==
    /\ pc' = "IEND"
    /\ err' = e

Fail(e) ==
    /\ pc' = "failed"
    /\ err' = e

\* write_array(outfile, pixels, interlace) up to the first write of
\* Writer.write: the generator is made and the signature written
WriteSignature ==
    /\ pc = "ready"
    /\ \E seed \in PixelSeeds, il \in Booleans :
        /\ pixels' = TestPixels(w.psize * w.width * w.height, seed)
        /\ interlace' = il
        /\ lines' = IF il THEN array_scanlines_interlace(w, pixels')
                          ELSE array_scanlines(w, pixels')
    /\ outfile' = outfile \o Signature
    /\ pc' = "IHDR"
    /\ UNCHANGED <<args, w, err, data, z, rd>>

\* lines 214-221
WriteIHDR ==
    /\ pc = "IHDR"
    /\ outfile' = outfile \o write_chunk(TagIHDR, IHDRPayload(w, interlace))
    /\ pc' = "tRNS"
    /\ UNCHANGED <<args, w, err, pixels, interlace, lines, data, z, rd>>

\* lines 224-230 (tag tRNS) and 233-239 (tag bKGD)
WriteColour(here, tag, colour, next) ==
    /\ pc = here
    /\ IF ~ColourSet(colour)
       THEN /\ pc' = next
            /\ UNCHANGED <<err, outfile>>
       ELSE LET p == ColourPayload(w.greyscale, colour)
            IN  IF p.err # ""
                THEN Fail(p.err) /\ UNCHANGED outfile
                ELSE /\ outfile' = outfile \o write_chunk(tag, p.bytes)
                     /\ pc' = next
                     /\ UNCHANGED err
    /\ UNCHANGED <<args, w, pixels, interlace, lines, data, z, rd>>

WriteTRNS == WriteColour("tRNS", TagtRNS, w.transparent, "bKGD")

WriteBKGD == WriteColour("bKGD", TagbKGD, w.background, "gAMA")

\* lines 242-252: the gAMA chunk, then the compressor and the empty buffer
WriteGAMA ==
    /\ pc = "gAMA"
    /\ outfile' = IF w.gamma.set
                  THEN outfile \o write_chunk(TaggAMA, PackI(GammaValue(w.gamma.micro)))
                  ELSE outfile
    /\ z' = compressobj
    /\ data' = <<>>
    /\ pc' = "IDAT"
    /\ UNCHANGED <<args, w, err, pixels, interlace, lines, rd>>

\* lines 253-261: one turn of the loop over the scanlines
WriteScanline ==
    /\ pc = "IDAT"
    /\ lines # <<>>
    /\ lines' = Tail(lines)
    /\ IF Head(lines).err # ""
       THEN Fail(Head(lines).err) /\ UNCHANGED <<data, z, outfile>>
       ELSE LET buf == LoopData(data, Head(lines).row)
                c   == compress(z, buf)
            IN  /\ IF OverLimit(buf, w.chunk_limit)
                   THEN /\ z' = c.z
                        /\ data' = DataAfterCompress(buf)
                        /\ outfile' = IF Len(c.out) > 0
                                      THEN outfile \o write_chunk(TagIDAT, c.out)
                                      ELSE outfile
                   ELSE /\ data' = buf
                        /\ UNCHANGED <<z, outfile>>
                /\ UNCHANGED <<pc, err>>
    /\ UNCHANGED <<args, w, pixels, interlace, rd>>

\* lines 262-269: the remainder, the flush and the last IDAT chunk
WriteFlush ==
    /\ pc = "IDAT"
    /\ lines = <<>>
    /\ LET c == IF Len(data) > 0 THEN compress(z, data) ELSE [out |-> <<>>, z |-> z]
           flushed == flush(c.z)
       IN  /\ outfile' = IF IdatWanted(c.out, flushed)
                         THEN outfile \o write_chunk(TagIDAT, c.out \o flushed)
                         ELSE outfile
           /\ z' = c.z
    /\ pc' = "IEND"
    /\ UNCHANGED <<args, w, err, pixels, interlace, lines, data, rd>>

\* line 272
WriteIEND ==
    /\ pc = "IEND"
    /\ outfile' = outfile \o write_chunk(TagIEND, <<>>)
    /\ pc' = "done"
    /\ UNCHANGED <<args, w, err, pixels, interlace, lines, data, z, rd>>

\* Reader().read(infile) on the bytes the writer left in the stream
Read ==
    /\ pc \in {"done", "failed"}
    /\ rd' = Reader_read(outfile)
    /\ pc' = IF pc = "done" THEN "read" ELSE "read_partial"
    /\ UNCHANGED <<args, w, err, pixels, interlace, lines, data, z, outfile>>

Next ==
    \/ Construct(WriterInputs)
    \/ WriteSignature
    \/ WriteIHDR
    \/ WriteTRNS
    \/ WriteBKGD
    \/ WriteGAMA
    \/ WriteScanline
    \/ WriteFlush
    \/ WriteIEND
    \/ Read

Spec == Init /\ [][Next]_vars

(***************************************************************************)
(* Properties of the encoder scenario                                      *)
(***************************************************************************)
RECURSIVE FileChunks(_)
\* the chunks a byte string is made of, as <<tag, payload>> records; bytes
\* that are no whole chunk give a record with an empty tag
FileChunks(s) ==
    IF s = <<>> THEN <<>>
    ELSE IF Len(s) < 12 \/ s[1] >= 128 \/ Len(s) < 12 + UnpackI(Slice(s, 0, 4))
    THEN <<[tag |-> <<>>, data |-> s]>>
    ELSE LET n == UnpackI(Slice(s, 0, 4))
         IN  <<[tag |-> Slice(s, 4, 8), data |-> Slice(s, 8, 8 + n)]>>
                \o FileChunks(Slice(s, 12 + n, Len(s)))

\* the chunks written so far, after the signature
Written == FileChunks(Slice(outfile, 8, Len(outfile)))

Tags(cs) == [k \in 1..Len(cs) |-> cs[k].tag]

RECURSIVE IdatPayloads(_)
\* the IDAT payloads of a chunk list, concatenated in file order
IdatPayloads(cs) ==
    IF cs = <<>> THEN <<>>
    ELSE (IF Head(cs).tag = TagIDAT THEN Head(cs).data ELSE <<>>)
            \o IdatPayloads(Tail(cs))

IdatCount(cs) == Cardinality({k \in 1..Len(cs) : cs[k].tag = TagIDAT})

WriteCompleted == pc \in {"done", "read"}

Rgb8 == ~w.greyscale /\ ~w.has_alpha /\ w.bytes_per_sample = 1

\* C1: an 8-bit RGB buffer of 3*width*height bytes written without
\* interlacing and read back comes back as (width, height, the same bytes)
C1_RoundTrip ==
    (pc = "read" /\ Rgb8 /\ ~interlace /\ Len(pixels) = 3 * w.width * w.height)
        => rd = [err |-> "", width |-> w.width, height |-> w.height,
                 pixels |-> pixels]

C1_Witness ==
    /\ pc = "read" /\ Rgb8 /\ ~interlace
    /\ w.width >= 2 /\ w.height >= 2
    /\ w.chunk_limit = SmallChunkLimit
    /\ w.transparent # PyNone /\ w.background # PyNone /\ w.gamma.set
    /\ rd.err = "" /\ rd.pixels = pixels

\* the tags of a canonical file for this writer, up to the first IDAT
ExpectedHead ==
    <<TagIHDR>>
        \o (IF w.transparent # PyNone THEN <<TagtRNS>> ELSE <<>>)
        \o (IF w.background # PyNone THEN <<TagbKGD>> ELSE <<>>)
        \o (IF w.gamma.set THEN <<TaggAMA>> ELSE <<>>)

\* C3: a write call that completes has written the signature, one IHDR,
\* then tRNS, bKGD, gAMA (each exactly when its value is set, in this
\* order), then one or more IDAT, then one IEND without payload, and
\* nothing else
C3_FileStructure ==
    WriteCompleted =>
        LET cs == Written
            h  == Len(ExpectedHead)
        IN  /\ Slice(outfile, 0, 8) = Signature
            /\ Len(cs) >= h + 2
            /\ Slice(Tags(cs), 0, h) = ExpectedHead
            /\ \A k \in (h + 1)..(Len(cs) - 1) : cs[k].tag = TagIDAT
            /\ cs[Len(cs)] = [tag |-> TagIEND, data |-> <<>>]

C3_Witness ==
    /\ pc = "done"
    /\ w.width = 1 /\ w.height = 1
    /\ w.transparent # PyNone /\ w.background # PyNone /\ w.gamma.set
    /\ IdatCount(Written) >= 2

\* the scanlines write_array hands to write
Scanlines ==
    IF interlace THEN array_scanlines_interlace(w, pixels)
    ELSE array_scanlines(w, pixels)

RECURSIVE LogicalStream(_)
\* every scanline in order, each after a filter byte 0
LogicalStream(ls) ==
    IF ls = <<>> THEN <<>> ELSE <<0>> \o Head(ls).row \o LogicalStream(Tail(ls))

\* C5: whatever the chunk limit, the IDAT payloads of a completed file,
\* concatenated in file order, decompress to the filter-byte-prefixed
\* scanlines in order
C5_ChunkingTransparent ==
    WriteCompleted =>
        decompress(IdatPayloads(Written))
            = [err |-> "", out |-> LogicalStream(Scanlines)]

C5_Witness ==
    /\ pc = "done"
    /\ w.chunk_limit = SmallChunkLimit
    /\ w.height >= 2
    /\ IdatCount(Written) >= 3

\* the colour type and channel count the format gives a colour model
TableColourType == IF w.greyscale THEN (IF w.has_alpha THEN 4 ELSE 0)
                   ELSE (IF w.has_alpha THEN 6 ELSE 2)
TableChannels == IF w.greyscale THEN (IF w.has_alpha THEN 2 ELSE 1)
                 ELSE (IF w.has_alpha THEN 4 ELSE 3)

HeaderWritten == pc \in {"tRNS", "bKGD", "gAMA", "IDAT", "IEND", "done", "failed"}

\* C7: the IHDR payload is width, height, 8 * bytes_per_sample, the colour
\* type of the table, 0, 0 and the interlace flag; psize is
\* bytes_per_sample times the channel count
C7_Header ==
    HeaderWritten =>
        /\ Written[1].tag = TagIHDR
        /\ Written[1].data =
              <<0, 0, 0, w.width, 0, 0, 0, w.height, 8 * w.bytes_per_sample,
                TableColourType, 0, 0, IF interlace THEN 1 ELSE 0>>
        /\ w.psize = w.bytes_per_sample * TableChannels

C7_Witness ==
    /\ pc = "done"
    /\ ~w.greyscale /\ ~w.has_alpha /\ w.bytes_per_sample = 2 /\ interlace
    /\ w.width = 2 /\ w.height = 2

\* C10: a call that fails on a descriptor value has written nothing
C10_NothingWrittenOnBadDescriptor ==
    (pc = "init_failed" \/ (pc = "failed" /\ err \in {"TypeError", "struct.error"}))
        => outfile = <<>>

\* the value of a big-endian u16
UnpackH(b) == b[1] * 256 + b[2]

\* write is past the tRNS and bKGD steps, or has ended in them
ColoursDone == pc \in {"gAMA", "IDAT", "IEND", "done", "failed"}

\* one chunk of this tag, holding one u16 per channel with the components
\* of the colour
ColourChunkOf(cs, tag, colour) ==
    /\ Cardinality({k \in 1..Len(cs) : cs[k].tag = tag}) = 1
    /\ \A k \in 1..Len(cs) :
          cs[k].tag = tag =>
              /\ Len(cs[k].data) = 2 * (IF w.greyscale THEN 1 ELSE 3)
              /\ Len(colour.v) = Len(cs[k].data) \div 2
              /\ \A j \in 1..Len(colour.v) :
                    UnpackH(Slice(cs[k].data, 2 * (j - 1), 2 * j)) = colour.v[j]

\* C11: once write is through its tRNS and bKGD steps, a transparent colour
\* that is set has given one tRNS chunk and a background colour that is set
\* one bKGD chunk, each of one big-endian u16 per channel (1 in greyscale
\* mode, 3 in colour mode) holding the components
C11_ColourChunks ==
    ColoursDone =>
        /\ w.transparent # PyNone => ColourChunkOf(Written, TagtRNS, w.transparent)
        /\ w.background # PyNone => ColourChunkOf(Written, TagbKGD, w.background)

\* write is past its gAMA step
GammaDone == pc \in {"IDAT", "IEND", "done"}

\* gamma * 100000 rounded to the nearest integer, gamma in millionths
RoundedGamma(micro) == (micro + 5) \div 10

\* C12: when gamma is set, write has emitted one gAMA chunk whose payload is
\* the big-endian u32 of gamma * 100000 rounded to the nearest integer
C12_GammaRounded ==
    (GammaDone /\ w.gamma.set) =>
        LET cs == Written
        IN  /\ Cardinality({k \in 1..Len(cs) : cs[k].tag = TaggAMA}) = 1
            /\ \A k \in 1..Len(cs) :
                  cs[k].tag = TaggAMA
                      => cs[k].data = PackI(RoundedGamma(w.gamma.micro))

(***************************************************************************)
(* The constructor alone, on arguments of every shape                      *)
(***************************************************************************)
MaxBytesPerSampleInput == 3

ColourInputs ==
    {PyNone, PyInt(5), PyInt(300), PyFloat(1),
     PyTuple(<<1, 2, 3>>), PyTuple(<<1, 2>>), PyTuple(<<1, 2, 3, 4>>),
     PyTuple(<<70000, 0, 300>>), PyTuple(<<0, -1, 0>>), PyFloatTuple(<<1, 2, 3>>)}

ConstructorInputs ==
    [width : -1..1, height : -1..1,
     transparent : ColourInputs, background : ColourInputs,
     gamma : {NoGamma}, greyscale : Booleans, has_alpha : Booleans,
     bytes_per_sample : 0..MaxBytesPerSampleInput,
     chunk_limit : {DefaultChunkLimit}]

NextConstructor == Construct(ConstructorInputs)

SpecConstructor == Init /\ [][NextConstructor]_vars

Constructed == pc \in {"ready", "init_failed"}

\* the argument combinations the claim names as errors
Rejected(a) ==
    \/ a.bytes_per_sample \notin {1, 2}
    \/ (a.has_alpha /\ a.transparent # PyNone)
    \/ a.width <= 0
    \/ a.height <= 0

\* a colour value of the shape its mode asks for
WellFormed(greyscale, c) ==
    \/ c = PyNone
    \/ (greyscale /\ c.t = "int")
    \/ (~greyscale /\ c.t = "tuple" /\ Len(c.v) = 3 /\ c.ints)

\* C8: Writer(...) raises ValueError and leaves no object when
\* bytes_per_sample is not 1 or 2, has_alpha comes with a transparent
\* colour, or width or height is not positive; with none of these and
\* well-formed colour values it returns a Writer
C8_ConstructorErrors ==
    Constructed =>
        /\ Rejected(args) => (pc = "init_failed" /\ err = "ValueError" /\ w = NoWriter)
        /\ (~Rejected(args) /\ WellFormed(args.greyscale, args.transparent)
                /\ WellFormed(args.greyscale, args.background))
              => (pc = "ready" /\ err = "" /\ w = Writer_init(args))

C8_Witness ==
    /\ pc = "init_failed"
    /\ args.bytes_per_sample = 3
    /\ args.width = 1 /\ args.height = 1 /\ ~args.has_alpha
    /\ WellFormed(args.greyscale, args.transparent)
    /\ WellFormed(args.greyscale, args.background)
    /\ w = NoWriter

\* a colour value with one component per colour channel, each a sample value
InShapeAndRange(wr, c) ==
    \/ c = PyNone
    \/ /\ Len(c.v) = (IF wr.greyscale THEN 1 ELSE 3)
       /\ \A k \in 1..Len(c.v) :
            c.v[k] >= 0 /\ c.v[k] <= (IF wr.bytes_per_sample = 1 THEN 255 ELSE 65535)

\* C9: a constructed Writer holds transparent and background values of one
\* (greyscale) or three (colour) components, each within the sample range
C9_DescriptorInvariant ==
    pc = "ready" => (InShapeAndRange(w, w.transparent) /\ InShapeAndRange(w, w.background))

(***************************************************************************)
(* One chunk: write_chunk, a payload byte altered on the way, read_chunk   *)
(***************************************************************************)
MaxPayload == 2

PayloadBytes == {0, 255}

RECURSIVE SeqsUpTo(_, _)
\* the sequences over S of length at most n
SeqsUpTo(S, n) ==
    IF n = 0 THEN {<<>>}
    ELSE LET shorter == SeqsUpTo(S, n - 1)
         IN  shorter \cup {Append(t, b) : t \in shorter, b \in S}

ChunkTags == {TagIHDR, TagIDAT, TagIEND}

NoChunk == [err |-> "", tag |-> <<>>, data |-> <<>>, rest |-> <<>>]

\* write_chunk(outfile, tag, data) on an empty stream
ChunkWrite ==
    /\ pc = "start"
    /\ \E tag \in ChunkTags, payload \in SeqsUpTo(PayloadBytes, MaxPayload) :
        /\ args' = [tag |-> tag, data |-> payload]
        /\ outfile' = write_chunk(tag, payload)
    /\ pc' = "chunk_written"
    /\ rd' = NoChunk
    /\ UNCHANGED <<w, err, pixels, interlace, lines, data, z>>

\* one byte of the payload becomes another value before the chunk is read
ChunkAlter ==
    /\ pc = "chunk_written"
    /\ \E i \in 0..(Len(args.data) - 1), v \in 0..255 :
        /\ v # At(outfile, 8 + i)
        /\ outfile' = SetAt(outfile, 8 + i, v)
    /\ pc' = "chunk_altered"
    /\ UNCHANGED <<args, w, err, pixels, interlace, lines, data, z, rd>>

\* read_chunk(infile) on the stream
ChunkRead ==
    /\ pc \in {"chunk_written", "chunk_altered"}
    /\ rd' = read_chunk(outfile)
    /\ pc' = IF pc = "chunk_written" THEN "chunk_read" ELSE "altered_chunk_read"
    /\ UNCHANGED <<args, w, err, pixels, interlace, lines, data, z, outfile>>

NextChunk == ChunkWrite \/ ChunkAlter \/ ChunkRead

SpecChunk == Init /\ [][NextChunk]_vars

\* C4: read_chunk returns (tag, data) on the bytes write_chunk wrote, and
\* raises the checksum error when one payload byte was changed
C4_ChecksumDetects ==
    /\ pc = "chunk_read" =>
          (rd.err = "" /\ rd.tag = args.tag /\ rd.data = args.data /\ rd.rest = <<>>)
    /\ pc = "altered_chunk_read" => rd.err = "ValueError: checksum error"

C4_Witness ==
    /\ pc = "altered_chunk_read"
    /\ Len(args.data) = 2
    /\ At(outfile, 9) # At(args.data, 1)
    /\ rd.err = "ValueError: checksum error"

(***************************************************************************)
(* The interlacing generator alone: array_scanlines_interlace(pixels) is   *)
(* driven to exhaustion, one yield at a time; rd collects what it yielded. *)
(* The pixel bytes are all different, so a yielded byte tells where it     *)
(* came from.                                                              *)
(***************************************************************************)
MaxGridWidth == 8
MaxGridHeight == 8

GridInputs ==
    {a \in [width : 1..MaxGridWidth, height : 1..MaxGridHeight,
            transparent : {PyNone}, background : {PyNone}, gamma : {NoGamma},
            greyscale : Booleans, has_alpha : Booleans, bytes_per_sample : {1, 2},
            chunk_limit : {DefaultChunkLimit}] :
        psize(a.greyscale, a.has_alpha, a.bytes_per_sample) * a.width * a.height <= 256}

\* writer.array_scanlines_interlace(pixels): the generator object
InterlaceStart ==
    /\ pc = "start"
    /\ \E a \in GridInputs :
        /\ args' = a
        /\ w' = Writer_init(a)
        /\ pixels' = TestPixels(w'.psize * a.width * a.height, 0)
        /\ lines' = array_scanlines_interlace(w', pixels')
    /\ rd' = <<>>
    /\ pc' = "interlace"
    /\ UNCHANGED <<err, interlace, data, z, outfile>>

\* next() on the generator: a scanline, an exception, or the end
InterlaceNext ==
    /\ pc = "interlace"
    /\ IF lines = <<>>
       THEN /\ pc' = "interlace_done"
            /\ UNCHANGED <<lines, rd, err>>
       ELSE /\ lines' = Tail(lines)
            /\ IF Head(lines).err # ""
               THEN /\ pc' = "interlace_failed"
                    /\ err' = Head(lines).err
                    /\ UNCHANGED rd
               ELSE /\ rd' = Append(rd, Head(lines).row)
                    /\ UNCHANGED <<pc, err>>
    /\ UNCHANGED <<args, w, pixels, interlace, data, z, outfile>>

NextInterlace == InterlaceStart \/ InterlaceNext

SpecInterlace == Init /\ [][NextInterlace]_vars

Interlacing == pc \in {"interlace", "interlace_done", "interlace_failed"}

\* the psize-byte groups of the scanlines yielded so far
YieldedPixels ==
    LET bytes == Concat(rd)
    IN  [j \in 1..(Len(bytes) \div w.psize) |->
            Slice(bytes, (j - 1) * w.psize, j * w.psize)]

\* the bytes of pixel (x, y) in the buffer
PixelAt(x, y) ==
    Slice(pixels, (y * w.width + x) * w.psize, (y * w.width + x + 1) * w.psize)

\* how often pixel (x, y) was yielded
TimesYielded(x, y) ==
    Cardinality({j \in 1..Len(YieldedPixels) : YieldedPixels[j] = PixelAt(x, y)})

\* the pass of every scanline due, in order: pass p has a scanline for
\* every y = ystart, ystart + ystep, ... below height if xstart < width
PassOfScanline ==
    Concat([p \in 1..7 |->
              IF adam7[p][1] < w.width
              THEN [k \in 1..RangeLen(adam7[p][2], w.height, adam7[p][4]) |-> p]
              ELSE <<>>])

\* ceil(n / d)
CeilDiv(n, d) == (n + d - 1) \div d

\* C2: over the seven passes every pixel of the grid is yielded exactly
\* once; every scanline has psize * ceil((width - xstart) / xstep) bytes for
\* its pass, and none is empty
C2_Adam7Coverage ==
    Interlacing =>
        /\ pc # "interlace_failed"
        /\ Len(rd) <= Len(PassOfScanline)
        /\ \A k \in 1..Len(rd) :
              /\ Len(rd[k]) > 0
              /\ Len(rd[k]) = w.psize * CeilDiv(w.width - adam7[PassOfScanline[k]][1],
                                                adam7[PassOfScanline[k]][3])
        /\ \A x \in 0..(w.width - 1), y \in 0..(w.height - 1) : TimesYielded(x, y) <= 1
        /\ pc = "interlace_done" =>
              /\ Len(rd) = Len(PassOfScanline)
              /\ Len(YieldedPixels) = w.width * w.height
              /\ \A x \in 0..(w.width - 1), y \in 0..(w.height - 1) :
                    TimesYielded(x, y) = 1

C2_Witness ==
    /\ pc = "interlace_done"
    /\ w.width = 5 /\ w.height = 3 /\ w.psize = 2
    /\ Len(rd) = 7
    /\ rd[2] = PixelAt(4, 0)

(***************************************************************************)
(* The reconstruction filters alone.  A true image is filtered row by row  *)
(* with one filter type, giving the decompressed scanline stream (filter   *)
(* byte, stored row, ...).  The stream is then decoded in two ways: by the *)
(* row loop of Reader.read itself, and by a caller that appends each       *)
(* stored row to the pixel array and calls the Reader method of the filter *)
(* type on it, with the arguments read passes.                             *)
(***************************************************************************)
MaxFilterPsize == 3
MaxRowPixels == 2
MaxRows == 2

FilterSeeds == {1, 130}

\* the byte at index i of row y of a true image, 0 outside the image
TrueByte(img, row_bytes, y, i) ==
    IF y < 0 \/ i < 0 THEN 0 ELSE At(img, y * row_bytes + i)

\* the predictor of the Paeth filter: of a, b, c the one nearest to
\* a + b - c, ties going to a, then b, then c
NearestOf(a, b, c) ==
    LET p == a + b - c
    IN  IF Abs(p - a) <= Abs(p - b) /\ Abs(p - a) <= Abs(p - c) THEN a
        ELSE IF Abs(p - b) <= Abs(p - c) THEN b
        ELSE c

\* the forward filter of type ft on byte i of row y
FilterByte(ft, img, row_bytes, ps, y, i) ==
    LET x == TrueByte(img, row_bytes, y, i)
        a == TrueByte(img, row_bytes, y, i - ps)
        b == TrueByte(img, row_bytes, y - 1, i)
        c == IF i - ps < 0 THEN 0 ELSE TrueByte(img, row_bytes, y - 1, i - ps)
    IN  CASE ft = 0 -> x
          [] ft = 1 -> (x - a) % 256
          [] ft = 2 -> (x - b) % 256
          [] ft = 3 -> (x - ((a + b) \div 2)) % 256
          [] ft = 4 -> (x - NearestOf(a, b, c)) % 256

\* the stream of filter bytes and stored rows of an image
FilteredStream(ft, img, row_bytes, ps, height) ==
    Concat([k \in 1..height |->
              <<ft>> \o [n \in 1..row_bytes |->
                           FilterByte(ft, img, row_bytes, ps, k - 1, n - 1)]])

\* the Reader method read names for a filter type
reconstruct(ft, px, offset, row_bytes, ps) ==
    CASE ft = 1 -> reconstruct_sub(px, offset, row_bytes, ps)
      [] ft = 2 -> reconstruct_up(px, offset, row_bytes, ps)
      [] ft = 3 -> reconstruct_average(px, offset, row_bytes, ps)
      [] ft = 4 -> reconstruct_paeth(px, offset, row_bytes, ps)
      [] OTHER -> Ok(px)

RECURSIVE ReconstructRows(_, _, _, _, _, _, _)
\* the row loop with the methods called on the Reader object
ReconstructRows(scanlines, px, y, height, offset, row_bytes, ps) ==
    IF y >= height THEN Ok(px)
    ELSE LET r == reconstruct(At(scanlines, offset),
                              px \o Slice(scanlines, offset + 1, offset + 1 + row_bytes),
                              y * row_bytes, row_bytes, ps)
         IN  IF r.err # "" THEN r
             ELSE ReconstructRows(scanlines, r.px, y + 1, height,
                                  offset + 1 + row_bytes, row_bytes, ps)

\* a true image and its filtered stream
FilterStart ==
    /\ pc = "start"
    /\ \E ft \in 0..4, ps \in 1..MaxFilterPsize, n \in 1..MaxRowPixels,
          h \in 1..MaxRows, seed \in FilterSeeds :
        /\ args' = [filter_type |-> ft, psize |-> ps, row_bytes |-> ps * n,
                    height |-> h]
        /\ pixels' = TestPixels(ps * n * h, seed)
        /\ data' = FilteredStream(ft, pixels', ps * n, ps, h)
    /\ pc' = "filtered"
    /\ UNCHANGED <<w, err, interlace, lines, z, outfile, rd>>

\* the Reader methods applied row by row
Reconstruct ==
    /\ pc = "filtered"
    /\ rd' = ReconstructRows(data, <<>>, 0, args.height, 0, args.row_bytes, args.psize)
    /\ pc' = "reconstructed"
    /\ UNCHANGED <<args, w, err, pixels, interlace, lines, data, z, outfile>>

\* lines 530-549 of Reader.read on the stream (read takes psize to be 3)
ReadScanlines ==
    /\ pc = "filtered"
    /\ args.psize = 3
    /\ rd' = ReadRows(data, <<>>, 0, args.height, 0, args.row_bytes)
    /\ pc' = "rows_read"
    /\ UNCHANGED <<args, w, err, pixels, interlace, lines, data, z, outfile>>

NextFilter == FilterStart \/ Reconstruct \/ ReadScanlines

SpecFilter == Init /\ [][NextFilter]_vars

\* C6: for each of the five filter types, on the first row as on later
\* rows, reconstructing the filtered rows gives back the true rows
C6_ReconstructionInvertsFilter ==
    pc \in {"reconstructed", "rows_read"} => rd = Ok(pixels)

\* byte i of the stored row y of the stream, after its filter byte
StoredByte(y, i) == At(data, y * (args.row_bytes + 1) + 1 + i)

\* byte i of the reconstructed row y, 0 before the row start and above the
\* first row
ReconByte(y, i) ==
    IF y < 0 \/ i < 0 THEN 0 ELSE At(rd.px, y * args.row_bytes + i)

\* every row of the stream went through the method of filter type ft
Reconstructed(ft) == pc = "reconstructed" /\ args.filter_type = ft

\* C16: Up reconstruction gives out[i] = (stored[i] + above[i]) mod 256 for
\* every byte of every row, above being the reconstructed byte of the
\* previous row and 0 on the first row, so that row 0 comes out as stored
C16_UpReconstruction ==
    Reconstructed(2) =>
        /\ rd.err = ""
        /\ Len(rd.px) = args.row_bytes * args.height
        /\ \A y \in 0..(args.height - 1), i \in 0..(args.row_bytes - 1) :
              ReconByte(y, i) = (StoredByte(y, i) + ReconByte(y - 1, i)) % 256

\* C17: Paeth reconstruction gives out[i] = (stored[i] + pr) mod 256 for
\* every byte of every row, pr being the one of a (left), b (above) and
\* c (above-left) nearest to a + b - c, ties going to a, then b, then c,
\* and a neighbour before the row start or above the first row being 0
C17_PaethReconstruction ==
    Reconstructed(4) =>
        /\ rd.err = ""
        /\ Len(rd.px) = args.row_bytes * args.height
        /\ \A y \in 0..(args.height - 1), i \in 0..(args.row_bytes - 1) :
              ReconByte(y, i) =
                  (StoredByte(y, i)
                      + NearestOf(ReconByte(y, i - args.psize),
                                  ReconByte(y - 1, i),
                                  ReconByte(y - 1, i - args.psize))) % 256

(***************************************************************************)
(* interleave_planes, on planes of the exact size and of sizes next to it. *)
(* pixels and data are the two arrays handed in, args keeps what they held *)
(* at the call, rd takes the array returned or the exception.              *)
(***************************************************************************)
MaxPlaneWidth == 2
MaxPlaneHeight == 2
MaxIpsize == 3
MaxApsize == 2
MaxSizeError == 1

\* out[a:b:k] = src for k > 1: an extended slice takes only a source of its
\* own size.  An empty source is the one case that depends on the array
\* module at hand: it is either refused like any other size, or the slice
\* is deleted (deletes).
AssignStepSlice(out, a, b, k, src, deletes) ==
    LET idx == SliceIndices(a, b, k, Len(out))
        InSlice(i) == i >= a /\ i < b /\ (i - a) % k = 0
        left == SelectSeq([n \in 1..Len(out) |-> <<n - 1, out[n]>>],
                          LAMBDA e : ~InSlice(e[1]))
    IN  IF Len(src) = 0 /\ deletes
        THEN Ok([n \in 1..Len(left) |-> left[n][2]])
        ELSE IF Len(idx) # Len(src) THEN [err |-> "ValueError", px |-> <<>>]
        ELSE Ok([n \in 1..Len(out) |->
                    IF n - 1 >= a /\ n - 1 < b /\ (n - 1 - a) % k = 0
                    THEN src[(n - 1 - a) \div k + 1]
                    ELSE out[n]])

RECURSIVE PlaneLoop(_, _, _, _, _, _, _, _, _)
\* lines 89-90 and 91-92: for i in range(ps):
\*     out[i+shift:newtotal:newpsize] = plane[i:total:ps]
PlaneLoop(out, plane, i, ps, shift, total, newtotal, newpsize, deletes) ==
    IF i >= ps THEN Ok(out)
    ELSE LET r == AssignStepSlice(out, i + shift, newtotal, newpsize,
                                  StepSlice(plane, i, total, ps), deletes)
         IN  IF r.err # "" THEN r
             ELSE PlaneLoop(r.px, plane, i + 1, ps, shift, total, newtotal,
                            newpsize, deletes)

\* line 92: the first byte of the second plane within a pixel, out[i+ipsize:...]
AlphaStart_first(ipsize) == 0

AlphaStart(ipsize) == ipsize

\* interleave_planes(ipixels, apixels, width, height, ipsize, apsize)
interleave_planes(ipixels, apixels, width, height, ipsize, apsize, deletes) ==
    LET pixelcount == width * height
        newpsize   == ipsize + apsize
        itotal     == pixelcount * ipsize
        atotal     == pixelcount * apsize
        newtotal   == pixelcount * newpsize
        out        == ipixels \o apixels
        first      == PlaneLoop(out, ipixels, 0, ipsize, 0, itotal, newtotal,
                                newpsize, deletes)
    IN  IF first.err # "" THEN first
        ELSE PlaneLoop(first.px, apixels, 0, apsize, AlphaStart(ipsize), atotal,
                       newtotal, newpsize, deletes)

\* a plane of n bytes, all different and different from the other plane's
PlaneBytes(n, base) == [k \in 1..n |-> base + k]

PlaneInputs ==
    {a \in [width : 1..MaxPlaneWidth, height : 1..MaxPlaneHeight,
            ipsize : 1..MaxIpsize, apsize : 1..MaxApsize,
            ilen : 0..(MaxPlaneWidth * MaxPlaneHeight * MaxIpsize + MaxSizeError),
            alen : 0..(MaxPlaneWidth * MaxPlaneHeight * MaxApsize + MaxSizeError)] :
        /\ a.ilen >= a.width * a.height * a.ipsize - MaxSizeError
        /\ a.ilen <= a.width * a.height * a.ipsize + MaxSizeError
        /\ a.alen >= a.width * a.height * a.apsize - MaxSizeError
        /\ a.alen <= a.width * a.height * a.apsize + MaxSizeError}

\* the caller makes the two planes
PlanesStart ==
    /\ pc = "start"
    /\ \E a \in PlaneInputs :
        /\ pixels' = PlaneBytes(a.ilen, 0)
        /\ data' = PlaneBytes(a.alen, 100)
        /\ args' = [width |-> a.width, height |-> a.height,
                    ipsize |-> a.ipsize, apsize |-> a.apsize,
                    ipixels |-> PlaneBytes(a.ilen, 0),
                    apixels |-> PlaneBytes(a.alen, 100)]
    /\ pc' = "planes"
    /\ UNCHANGED <<w, err, interlace, lines, z, outfile, rd>>

\* the call: the function assigns to out only
Interleave ==
    /\ pc = "planes"
    /\ \E deletes \in Booleans :
          rd' = interleave_planes(pixels, data, args.width, args.height,
                                  args.ipsize, args.apsize, deletes)
    /\ pc' = "interleaved"
    /\ UNCHANGED <<args, w, err, pixels, interlace, lines, data, z, outfile>>

NextPlanes == PlanesStart \/ Interleave

SpecPlanes == Init /\ [][NextPlanes]_vars

PixelCount == args.width * args.height

ExactPlanes ==
    /\ Len(args.ipixels) = PixelCount * args.ipsize
    /\ Len(args.apixels) = PixelCount * args.apsize

\* C13: a call with a plane that does not hold exactly width * height times
\* its stride bytes ends in an error and returns no buffer
C13_SizeMismatchFails ==
    (pc = "interleaved" /\ ~ExactPlanes) => rd.err # ""

\* C14: for planes of the exact sizes the call returns a buffer of
\* width * height * (ipsize + apsize) bytes where pixel p holds the ipsize
\* bytes of pixel p of ipixels, then the apsize bytes of pixel p of apixels;
\* both planes hold what they held at the call
C14_Interleaved ==
    (pc = "interleaved" /\ ExactPlanes) =>
        LET np == args.ipsize + args.apsize
        IN  /\ rd.err = ""
            /\ Len(rd.px) = PixelCount * np
            /\ \A p \in 0..(PixelCount - 1) :
                  /\ Slice(rd.px, p * np, p * np + args.ipsize)
                        = Slice(args.ipixels, p * args.ipsize, (p + 1) * args.ipsize)
                  /\ Slice(rd.px, p * np + args.ipsize, (p + 1) * np)
                        = Slice(args.apixels, p * args.apsize, (p + 1) * args.apsize)
            /\ pixels = args.ipixels
            /\ data = args.apixels

C14_Witness ==
    /\ pc = "interleaved" /\ ExactPlanes
    /\ args.width = 2 /\ args.height = 2 /\ args.ipsize = 3 /\ args.apsize = 1
    /\ rd.err = ""
    /\ Slice(rd.px, 4, 8) = <<4, 5, 6, 102>>

(***************************************************************************)
(* Reader.read on files that are well formed but for the values of the     *)
(* header or a byte of the signature: a 1 x 1 image of one RGB pixel       *)
(* behind a header of any bit depth, colour type, compression method,      *)
(* filter method and interlace flag of the format.  args keeps the header. *)
(***************************************************************************)
HeaderInputs ==
    [bits : {1, 2, 4, 8, 16}, color_type : {0, 2, 3, 4, 6},
     compression : {0, 1}, filter : {0, 1}, interlaced : {0, 1},
     signature : {Signature, <<137, 80, 78, 71, 13, 10, 26, 13>>}]

\* the scanline of the image after its filter byte 0
OnePixel == <<10, 20, 30>>

OnePixelData ==
    LET c == compress(compressobj, <<0>> \o OnePixel)
    IN  c.out \o flush(c.z)

\* somebody else's encoder writes the file
ForeignFile ==
    /\ pc = "start"
    /\ \E h \in HeaderInputs :
        /\ args' = h
        /\ outfile' = h.signature
                \o write_chunk(TagIHDR, PackI(1) \o PackI(1)
                        \o <<h.bits, h.color_type, h.compression, h.filter,
                             h.interlaced>>)
                \o write_chunk(TagIDAT, OnePixelData)
                \o write_chunk(TagIEND, <<>>)
    /\ pc' = "done"
    /\ UNCHANGED <<w, err, pixels, interlace, lines, data, z, rd>>

NextHeader == ForeignFile \/ Read

SpecHeader == Init /\ [][NextHeader]_vars

Supported ==
    /\ args.bits = 8 /\ args.color_type = 2
    /\ args.compression = 0 /\ args.filter = 0 /\ args.interlaced = 0
    /\ args.signature = Signature

\* C15: read ends in an error and returns no pixels when the first 8 bytes
\* are not the signature or the header has a bit depth other than 8, a
\* colour type other than 2, or a compression method, filter method or
\* interlace flag other than 0
C15_UnsupportedRejected ==
    (pc = "read" /\ ~Supported) => (rd.err = "AssertionError" /\ rd.pixels = <<>>)

C15_Witness ==
    /\ pc = "read"
    /\ args.signature = Signature
    /\ args.bits = 8 /\ args.color_type = 3
    /\ args.compression = 0 /\ args.filter = 0 /\ args.interlaced = 0
    /\ rd.err = "AssertionError"

(***************************************************************************)
(* Writer.write with failures: convert_ppm on a file that may be short of  *)
(* bytes, and an output stream whose write may raise at any call.          *)
(***************************************************************************)
MaxShortfall == 1

FailureInputs ==
    [width : 1..MaxWidth, height : 1..MaxHeight,
     transparent : {PyNone, PyInt(5), PyTuple(<<1, 2, 3>>)},
     background : {PyNone, PyTuple(<<4, 5, 255>>)},
     gamma : {NoGamma, Gamma(1000000)}, greyscale : Booleans,
     has_alpha : {FALSE}, bytes_per_sample : {1},
     chunk_limit : {SmallChunkLimit, DefaultChunkLimit}]

\* convert_ppm(ppmfile, outfile) up to the first write of Writer.write
ConvertPpm ==
    /\ pc = "ready"
    /\ \E short \in 0..MaxShortfall :
        /\ w.psize * w.width * w.height >= short
        /\ pixels' = TestPixels(w.psize * w.width * w.height - short, 0)
        /\ lines' = file_scanlines(w, pixels')
    /\ interlace' = FALSE
    /\ outfile' = outfile \o Signature
    /\ pc' = "IHDR"
    /\ UNCHANGED <<args, w, err, data, z, rd>>

\* the chunk the next statement of Writer.write hands to write_chunk,
\* empty when it writes none
PendingChunk ==
    CASE pc = "IHDR" -> write_chunk(TagIHDR, IHDRPayload(w, interlace))
      [] pc = "tRNS" ->
            IF ColourSet(w.transparent)
                  /\ ColourPayload(w.greyscale, w.transparent).err = ""
            THEN write_chunk(TagtRNS, ColourPayload(w.greyscale, w.transparent).bytes)
            ELSE <<>>
      [] pc = "bKGD" ->
            IF ColourSet(w.background)
                  /\ ColourPayload(w.greyscale, w.background).err = ""
            THEN write_chunk(TagbKGD, ColourPayload(w.greyscale, w.background).bytes)
            ELSE <<>>
      [] pc = "gAMA" ->
            IF w.gamma.set
            THEN write_chunk(TaggAMA, PackI(GammaValue(w.gamma.micro)))
            ELSE <<>>
      [] pc = "IDAT" /\ lines # <<>> ->
            IF Head(lines).err = ""
                  /\ OverLimit(LoopData(data, Head(lines).row), w.chunk_limit)
                  /\ Len(compress(z, LoopData(data, Head(lines).row)).out) > 0
            THEN write_chunk(TagIDAT,
                             compress(z, LoopData(data, Head(lines).row)).out)
            ELSE <<>>
      [] pc = "IDAT" /\ lines = <<>> ->
            LET c == IF Len(data) > 0 THEN compress(z, data)
                     ELSE [out |-> <<>>, z |-> z]
            IN  IF IdatWanted(c.out, flush(c.z))
                THEN write_chunk(TagIDAT, c.out \o flush(c.z))
                ELSE <<>>
      [] pc = "IEND" -> write_chunk(TagIEND, <<>>)
      [] OTHER -> <<>>

\* outfile.write raises: write_chunk makes four calls of it (length, tag,
\* data, checksum), and those before the failing one have written
StreamWriteFails ==
    /\ pc \in {"IHDR", "tRNS", "bKGD", "gAMA", "IDAT", "IEND"}
    /\ PendingChunk # <<>>
    /\ \E k \in {0, 4, 8, Len(PendingChunk) - 4} :
          outfile' = outfile \o Slice(PendingChunk, 0, k)
    /\ Fail("IOError")
    /\ UNCHANGED <<args, w, pixels, interlace, lines, data, z, rd>>

NextFailure ==
    \/ Construct(FailureInputs)
    \/ ConvertPpm
    \/ WriteIHDR
    \/ WriteTRNS
    \/ WriteBKGD
    \/ WriteGAMA
    \/ WriteScanline
    \/ WriteFlush
    \/ WriteIEND
    \/ StreamWriteFails
    \/ Read

SpecFailure == Init /\ [][NextFailure]_vars

HasIEND == \E k \in 1..Len(Written) : Written[k].tag = TagIEND

\* an IEND chunk is in the stream only when every scanline was consumed and
\* the compressed stream is complete, and never after an exception
TerminatorOnlyAfterFlush ==
    /\ HasIEND =>
          /\ pc \in {"done", "read"}
          /\ lines = <<>>
          /\ decompress(IdatPayloads(Written)).err = ""
    /\ pc \in {"failed", "read_partial"} => (err # "" /\ ~HasIEND)

\* the call that ended in an exception writes nothing more
NothingAfterFailure == pc \in {"failed", "read_partial"} => outfile' = outfile

\* C18: IEND is written only after all scanlines were consumed and the
\* compressor flushed; when the scanline source or a stream write raises
\* before that, the exception leaves write, and the call writes no IEND
\* chunk and nothing else afterwards
C18_NoTerminatorAfterFailure ==
    []TerminatorOnlyAfterFlush /\ [][NothingAfterFailure]_vars

C18_Witness ==
    /\ pc = "read_partial"
    /\ err = "EOFError"
    /\ IdatCount(Written) >= 1
    /\ ~HasIEND

====
